---- MODULE Spec2Model ----
(***************************************************************************)
(* Model of webapp.py, the Schiphol "Mondkapje Monitor".                   *)
(*                                                                         *)
(* The script fetches the latest wind direction (dd) of one KNMI station   *)
(* through a 30-second memoised function, decides with mask_required       *)
(* whether the bearing lies in the east..south sector, and renders the     *)
(* result.                                                                 *)
(*                                                                         *)
(* Encoding.  A Python value that may be None is a sequence of length at   *)
(* most one: <<>> is None (or a missing JSON key), <<x>> is the value x.   *)
(* Bearings are whole degrees.  A point in time is a number of seconds.    *)
(***************************************************************************)
EXTENDS Integers, Sequences, FiniteSets, TLC

None == <<>>
Some(x) == <<x>>
Get(o) == o[1]

Min(a, b) == IF a <= b THEN a ELSE b

(***************************************************************************)
(* Module constants of webapp.py.                                          *)
(***************************************************************************)
SCHIPHOL_LOCATION_ID == "0-20000-0-06240"
EAST_MIN == 90
SOUTH_MAX == 180
\* ttl of @st.cache_data, seconds
CACHE_TTL == 30
\* timeout of requests.get, seconds
REQUEST_TIMEOUT == 30
\* lowest and initial position of the lookback slider, hours
LOOKBACK_MIN == 1
LOOKBACK_DEFAULT == 6

(***************************************************************************)
(* Bounds of the model.                                                    *)
(***************************************************************************)
\* most coverages in a payload
MaxCov == 2
\* most entries of the dd series of a payload, all coverages together
MaxEntries == 3
\* seconds the clock advances in one step
Tick == 10
\* the last second the clock reaches
MaxTime == 70

(***************************************************************************)
(* mask_required(dd): False for None and for dd <= 0, else whether dd is   *)
(* in the closed sector EAST_MIN..SOUTH_MAX.  in_sector is the body of the *)
(* function with the two module constants as parameters.                   *)
(***************************************************************************)
in_sector_open(dd, east_min, south_max) ==
    IF dd = None \/ Get(dd) <= 0
    THEN FALSE
    ELSE east_min <= Get(dd) /\ Get(dd) < south_max

in_sector_zero_is_north(dd, east_min, south_max) ==
    IF dd = None \/ Get(dd) < 0
    THEN FALSE
    ELSE east_min <= Get(dd) /\ Get(dd) <= south_max

in_sector(dd, east_min, south_max) ==
    IF dd = None \/ Get(dd) <= 0
    THEN FALSE
    ELSE east_min <= Get(dd) /\ Get(dd) <= south_max

mask_required(dd) == in_sector(dd, EAST_MIN, SOUTH_MAX)

(***************************************************************************)
(* The upstream payload.  A coverage is [values, data, times]: the series  *)
(* under ranges.dd.values, the series under ranges.dd.data and the axis    *)
(* under domain.axes.t.values, each None when the key, or any dictionary   *)
(* on the way to it, is missing or null.  An entry of a series is None     *)
(* (JSON null) or a bearing; an entry of the axis is an ISO-8601 string,   *)
(* kept as its instant and the way it writes UTC ("Z" or "+00:00").        *)
(***************************************************************************)
\* x or [] for a list that may be missing
or_empty(o) == IF o = None THEN <<>> ELSE Get(o)

\* values = dd_range.get("values") or dd_range.get("data") or []
coverage_values(c) ==
    IF or_empty(c.values) # <<>> THEN or_empty(c.values) ELSE or_empty(c.data)

\* times = t_axis.get("values") or []
coverage_times(c) == or_empty(c.times)

\* times[i].replace("Z", "+00:00")
replace_z(s) == [s EXCEPT !.zone = IF @ = "Z" THEN "+00:00" ELSE @]

\* datetime.fromisoformat of a string that writes UTC as +00:00
fromisoformat(s) == s.instant

\* float(v) of a JSON number keeps its value
to_float(v) == v

\* the three-tuple the function returns
Result(dd, measured_at, retrieved_at) ==
    [dd |-> dd, measured_at |-> measured_at, retrieved_at |-> Some(retrieved_at)]

(***************************************************************************)
(* for i in range(last_i, -1, -1): the first entry that is not None, from  *)
(* the last index down; None when the loop ends without one.  Indices are  *)
(* 1-based here.                                                           *)
(***************************************************************************)
RECURSIVE scan_series(_, _, _)
scan_series(values, times, i) ==
    IF i < 1
    THEN None
    ELSE IF values[i] = None
         THEN scan_series(values, times, i - 1)
         ELSE Some([dd |-> to_float(Get(values[i])),
                    measured_at |-> fromisoformat(replace_z(times[i]))])

\* the loop body for one coverage: None stands for `continue`
scan_coverage_forward(c) ==
    LET values == coverage_values(c)
        times == coverage_times(c)
        first == {i \in 1..Min(Len(values), Len(times)) : values[i] # None}
    IN IF first = {}
       THEN None
       ELSE LET i == CHOOSE j \in first : \A k \in first : j <= k
            IN Some([dd |-> to_float(Get(values[i])),
                     measured_at |-> fromisoformat(replace_z(times[i]))])

scan_coverage_unpaired(c) ==
    LET values == coverage_values(c)
        times == coverage_times(c)
        found == {i \in 1..Len(values) : values[i] # None}
    IN IF values = <<>> \/ times = <<>> \/ found = {}
       THEN None
       ELSE LET i == CHOOSE j \in found : \A k \in found : k <= j
            IN Some([dd |-> to_float(Get(values[i])),
                     measured_at |->
                         fromisoformat(replace_z(times[Min(i, Len(times))]))])

scan_coverage(c) ==
    LET values == coverage_values(c)
        times == coverage_times(c)
    IN IF values = <<>> \/ times = <<>>
       THEN None
       ELSE scan_series(values, times, Min(Len(values), Len(times)))

(***************************************************************************)
(* for c in reversed(coverages): the first coverage, from the last one     *)
(* down, whose scan finds an entry.                                        *)
(***************************************************************************)
RECURSIVE scan_coverages(_, _)
scan_coverages(coverages, k) ==
    IF k < 1
    THEN None
    ELSE IF scan_coverage(coverages[k]) # None
         THEN scan_coverage(coverages[k])
         ELSE scan_coverages(coverages, k - 1)

(***************************************************************************)
(* Lines 41-66 of get_latest_dd_and_measured_time: what the function       *)
(* returns for the decoded body cov of a successful response.              *)
(***************************************************************************)
parse_response_null_time(cov, retrieved_at) ==
    LET coverages == or_empty(cov.coverages)
        found == scan_coverages(coverages, Len(coverages))
    IN IF found = None
       THEN Result(None, None, retrieved_at)
       ELSE Result(Some(Get(found).dd), None, retrieved_at)

parse_response(cov, retrieved_at) ==
    LET coverages == or_empty(cov.coverages)
    IN IF coverages = <<>>
       THEN Result(None, None, retrieved_at)
       ELSE LET found == scan_coverages(coverages, Len(coverages))
            IN IF found = None
               THEN Result(None, None, retrieved_at)
               ELSE Result(Some(Get(found).dd), Some(Get(found).measured_at),
                           retrieved_at)

(***************************************************************************)
(* Inputs.  The station reports on a fixed grid: the entry at index i of   *)
(* coverage k belongs to instant TimeAt(k, i), later coverages and later   *)
(* indices being more recent, and carries either null or the bearing       *)
(* DdAt(k, i).  A payload is drawn by choosing, for each coverage, which   *)
(* entries of the series are null and how long the time axis is (shorter   *)
(* than the series, as long, or one longer), and by choosing how the       *)
(* payload spells its keys.                                                *)
(***************************************************************************)
DdCycle == <<135, 0, 200, 90>>

TimeAt(k, i) == (k - 1) * (MaxEntries + 2) + i
DdAt(k, i) == DdCycle[(TimeAt(k, i) % Len(DdCycle)) + 1]
TimeString(k, i) ==
    [instant |-> TimeAt(k, i), zone |-> IF i % 2 = 0 THEN "+00:00" ELSE "Z"]

\* "values": series under values; "data": series under data; "both": series
\* under values and a one-entry series under data; "missing": empty lists
\* are left out of the payload
Spellings == {"values", "data", "both", "missing"}

Masks(len) == UNION {[1..n -> BOOLEAN] : n \in 0..len}
CoverageShapes(len) ==
    {[mask |-> m, tlen |-> t] : m \in Masks(len), t \in 0..(len + 1)}

\* the shapes of n coverages that hold at most budget entries together
RECURSIVE PayloadShapes(_, _)
PayloadShapes(n, budget) ==
    IF n = 0
    THEN {<<>>}
    ELSE UNION {{Append(sh, c) : sh \in PayloadShapes(n - 1, budget - Len(c.mask))} :
                c \in {x \in CoverageShapes(budget) : x.tlen <= Len(x.mask) + 1}}

Series(k, mask) ==
    [i \in 1..Len(mask) |-> IF mask[i] THEN Some(DdAt(k, i)) ELSE None]
Axis(k, n) == [i \in 1..n |-> TimeString(k, i)]
Decoy == <<Some(315)>>

Listed(spelling, list) ==
    IF spelling = "missing" /\ list = <<>> THEN None ELSE Some(list)

Coverage(spelling, k, shape) ==
    [values |-> IF spelling = "data" THEN None
                ELSE Listed(spelling, Series(k, shape.mask)),
     data   |-> IF spelling = "data" THEN Some(Series(k, shape.mask))
                ELSE IF spelling = "both" THEN Some(Decoy) ELSE None,
     times  |-> Listed(spelling, Axis(k, shape.tlen))]

Payload(spelling, shapes) ==
    [coverages |->
        Listed(spelling, [k \in 1..Len(shapes) |-> Coverage(spelling, k, shapes[k])])]

BearingInputs == {None} \cup {Some(d) : d \in (0 - 5)..365}

VARIABLES
    arg,            \* the call under test: the function and its argument
    ret,            \* what the call returned, None before it returns
    secrets,        \* st.secrets.get("KNMI_EDR_TOKEN")
    now,            \* the clock, seconds
    cache,          \* the entries of @st.cache_data, by argument tuple
    pc,             \* "idle", or "waiting" while requests.get blocks
    lookback_hours, \* the lookback slider
    call,           \* the request in flight: arguments, header, retrieved_at
    calls,          \* requests sent by the current script run
    result,         \* dd, measured_at, retrieved_at of the current script run
    display,        \* what the page shows
    fetched,        \* history: the last successful fetch of each argument tuple
    failed          \* history: argument tuples whose last fetch raised

vars == <<arg, ret, secrets, now, cache, pc, lookback_hours, call, calls,
          result, display, fetched, failed>>
appvars == <<secrets, now, cache, pc, lookback_hours, call, calls, result,
             display, fetched, failed>>

\* positions of the lookback slider the model moves between
Lookbacks == {LOOKBACK_MIN, LOOKBACK_DEFAULT}

\* the key of a memoised call: its argument tuple
cache_key(location_id, hours) == <<location_id, hours>>

Keys == {cache_key(SCHIPHOL_LOCATION_ID, h) : h \in Lookbacks}

AppAtRest ==
    /\ now = 0
    /\ cache = [k \in Keys |-> None]
    /\ pc = "idle"
    /\ lookback_hours = LOOKBACK_DEFAULT
    /\ call = None
    /\ calls = 0
    /\ result = None
    /\ display = None
    /\ fetched = [k \in Keys |-> None]
    /\ failed = {}

(***************************************************************************)
(* The two functions on their own: one call of mask_required on a bearing, *)
(* or one evaluation of lines 41-66 on a payload.                          *)
(***************************************************************************)
InitFetch ==
    /\ \/ \E sp \in Spellings, n \in 0..MaxCov :
             \E sh \in PayloadShapes(n, MaxEntries) :
                arg = [fn |-> "parse", x |-> Payload(sp, sh)]
       \/ \E d \in BearingInputs : arg = [fn |-> "mask_required", x |-> d]
    /\ ret = None
    /\ secrets = Some("token")
    /\ AppAtRest

CallParse ==
    /\ arg.fn = "parse" /\ ret = None
    /\ ret' = Some(parse_response(arg.x, now))
    /\ UNCHANGED <<arg, appvars>>

CallMaskRequired ==
    /\ arg.fn = "mask_required" /\ ret = None
    /\ ret' = Some(mask_required(arg.x))
    /\ UNCHANGED <<arg, appvars>>

NextFetch == CallParse \/ CallMaskRequired

SpecFetch == InitFetch /\ [][NextFetch]_vars

(***************************************************************************)
(* The application: script runs against the memoised fetch.                *)
(***************************************************************************)
\* get_token raises RuntimeError: `if not token`
token_missing_none_only(token) == token = None

token_missing(token) == IF token = None THEN TRUE ELSE Get(token) = ""

\* @st.cache_data(ttl=30): an entry answers calls until ttl seconds after it
\* was stored
cache_fresh_inclusive(entry, t) ==
    entry # None /\ t <= Get(entry).stored_at + CACHE_TTL

cache_fresh(entry, t) ==
    entry # None /\ t < Get(entry).stored_at + CACHE_TTL

\* an uncaught exception ends the script run and is shown in its place
Exception(error) == [kind |-> "exception", error |-> error]

\* lines 82-110: the page for the tuple the fetch returned.  An em dash
\* stands in the dd metric for an unknown bearing; it is written "--" here.
Page_formats_none(value) ==
    IF value.dd = None
    THEN Exception("TypeError")
    ELSE [kind |-> "page",
          background |-> IF mask_required(value.dd) THEN "#d32f2f" ELSE "#2e7d32",
          emoji |-> IF mask_required(value.dd) THEN "mask" ELSE "check",
          status_text |-> "Dringend advies: Mondkapje dragen in rode gebieden",
          dd_metric |-> <<Get(value.dd), "deg">>,
          images |-> IF mask_required(value.dd)
                     THEN <<"begane_grond_rood.png", "dak_rood.png">>
                     ELSE <<"begane_grond_groen.png", "dak_groen.png">>,
          ophaalmoment |-> Get(value.retrieved_at),
          meetmoment |-> <<Get(value.measured_at), "KNMI">>]

Page(value) ==
    LET required == mask_required(value.dd) IN
    [kind |-> "page",
     background |-> IF required THEN "#d32f2f" ELSE "#2e7d32",
     emoji |-> IF required THEN "mask" ELSE "check",
     status_text |-> "Dringend advies: Mondkapje dragen in rode gebieden",
     dd_metric |-> IF value.dd = None THEN <<"--">> ELSE <<Get(value.dd), "deg">>,
     images |-> IF required
                THEN <<"begane_grond_rood.png", "dak_rood.png">>
                ELSE <<"begane_grond_groen.png", "dak_groen.png">>,
     ophaalmoment |-> Get(value.retrieved_at),
     meetmoment |-> IF value.measured_at # None
                    THEN <<Get(value.measured_at), "KNMI">>
                    ELSE <<"onbekend">>]

\* bodies of successful responses: no coverages (the key missing, or an
\* empty list), and one coverage whose series is a reading, a reading
\* followed by null, two readings, null alone, or a reading without a time
ResponseShapes ==
    {<<>>,
     <<[mask |-> <<TRUE>>, tlen |-> 1]>>,
     <<[mask |-> <<TRUE, FALSE>>, tlen |-> 2]>>,
     <<[mask |-> <<TRUE, TRUE>>, tlen |-> 2]>>,
     <<[mask |-> <<FALSE>>, tlen |-> 1]>>,
     <<[mask |-> <<TRUE>>, tlen |-> 0]>>}
ResponseBodies ==
    {Payload("values", sh) : sh \in ResponseShapes} \cup {Payload("missing", <<>>)}

\* seconds a response takes to arrive
Delays == {d \in {0, Tick} : d < REQUEST_TIMEOUT}

Init ==
    /\ arg = None
    /\ ret = None
    /\ secrets \in {None, Some(""), Some("token")}
    /\ AppAtRest

\* A script run with the slider at h whose call is answered by the cache.
RerunHit(h) ==
    LET key == cache_key(SCHIPHOL_LOCATION_ID, h) IN
    /\ pc = "idle"
    /\ cache_fresh(cache[key], now)
    /\ lookback_hours' = h
    /\ calls' = 0
    /\ result' = Some(Get(cache[key]).value)
    /\ display' = Some(Page(Get(cache[key]).value))
    /\ UNCHANGED <<arg, ret, secrets, now, cache, pc, call, fetched, failed>>

\* A script run whose call reaches get_token and finds no token.
RerunNoToken(h) ==
    LET key == cache_key(SCHIPHOL_LOCATION_ID, h) IN
    /\ pc = "idle"
    /\ ~cache_fresh(cache[key], now)
    /\ token_missing(secrets)
    /\ lookback_hours' = h
    /\ calls' = 0
    /\ result' = None
    /\ display' = Some(Exception("RuntimeError"))
    /\ UNCHANGED <<arg, ret, secrets, now, cache, pc, call, fetched, failed>>

\* A script run whose call sends the request and blocks in requests.get.
RerunMiss(h) ==
    LET key == cache_key(SCHIPHOL_LOCATION_ID, h) IN
    /\ pc = "idle"
    /\ ~cache_fresh(cache[key], now)
    /\ ~token_missing(secrets)
    /\ lookback_hours' = h
    /\ calls' = 1
    /\ call' = Some([key |-> key, authorization |-> Get(secrets), retrieved_at |-> now])
    /\ pc' = "waiting"
    /\ result' = None
    /\ UNCHANGED <<arg, ret, secrets, now, cache, display, fetched, failed>>

\* The response is a success: the body is parsed, the tuple is stored by the
\* decorator and the page is rendered.
RespondOk ==
    /\ pc = "waiting"
    /\ \E body \in ResponseBodies, d \in Delays :
          LET value == parse_response(body, Get(call).retrieved_at) IN
          /\ now + d <= MaxTime
          /\ now' = now + d
          /\ cache' = [cache EXCEPT ![Get(call).key] =
                          Some([value |-> value, stored_at |-> now + d])]
          /\ fetched' = [fetched EXCEPT ![Get(call).key] =
                          Some([value |-> value,
                                started |-> Get(call).retrieved_at,
                                ended |-> now + d])]
          /\ result' = Some(value)
          /\ display' = Some(Page(value))
    /\ failed' = failed \ {Get(call).key}
    /\ pc' = "idle"
    /\ call' = None
    /\ UNCHANGED <<arg, ret, secrets, lookback_hours, calls>>

\* raise_for_status raises on a status that is not a success.
RespondHttpErrorCached ==
    /\ pc = "waiting"
    /\ \E d \in Delays :
          /\ now + d <= MaxTime
          /\ now' = now + d
          /\ cache' = [cache EXCEPT ![Get(call).key] =
                          Some([value |-> Result(None, None, Get(call).retrieved_at),
                                stored_at |-> now + d])]
    /\ failed' = failed \cup {Get(call).key}
    /\ result' = None
    /\ display' = Some(Exception("HTTPError"))
    /\ pc' = "idle"
    /\ call' = None
    /\ UNCHANGED <<arg, ret, secrets, lookback_hours, calls, fetched>>

RespondHttpErrorRetried ==
    /\ pc = "waiting"
    /\ calls' = calls + 1
    /\ UNCHANGED <<arg, ret, secrets, now, cache, pc, lookback_hours, call,
                   result, display, fetched, failed>>

RespondHttpError ==
    /\ pc = "waiting"
    /\ \E d \in Delays :
          /\ now + d <= MaxTime
          /\ now' = now + d
    /\ failed' = failed \cup {Get(call).key}
    /\ result' = None
    /\ display' = Some(Exception("HTTPError"))
    /\ pc' = "idle"
    /\ call' = None
    /\ UNCHANGED <<arg, ret, secrets, cache, lookback_hours, calls, fetched>>

\* requests.get gives up after its timeout.
RespondTimeout ==
    /\ pc = "waiting"
    /\ now + REQUEST_TIMEOUT <= MaxTime
    /\ now' = now + REQUEST_TIMEOUT
    /\ failed' = failed \cup {Get(call).key}
    /\ result' = None
    /\ display' = Some(Exception("Timeout"))
    /\ pc' = "idle"
    /\ call' = None
    /\ UNCHANGED <<arg, ret, secrets, cache, lookback_hours, calls, fetched>>

\* Time passes between script runs.
Wait ==
    /\ pc = "idle"
    /\ now + Tick <= MaxTime
    /\ now' = now + Tick
    /\ UNCHANGED <<arg, ret, secrets, cache, pc, lookback_hours, call, calls,
                   result, display, fetched, failed>>

Next ==
    \/ \E h \in Lookbacks : RerunHit(h)
    \/ \E h \in Lookbacks : RerunNoToken(h)
    \/ \E h \in Lookbacks : RerunMiss(h)
    \/ RespondOk
    \/ RespondHttpError
    \/ RespondTimeout
    \/ Wait

Spec == Init /\ [][Next]_vars

(***************************************************************************)
(* Properties of the two functions, under SpecFetch.                       *)
(***************************************************************************)
Returned(fn) == arg.fn = fn /\ ret # None

\* The readings of a payload: the entries of a dd series that are not null
\* and have a timestamp at the same index of the coverage's time axis.
SeriesOf(c) ==
    IF c.values # None /\ Get(c.values) # <<>> THEN Get(c.values)
    ELSE IF c.data # None THEN Get(c.data) ELSE <<>>
AxisOf(c) == IF c.times = None THEN <<>> ELSE Get(c.times)
ReadingsOf(c) ==
    {[dd |-> Get(SeriesOf(c)[i]), at |-> AxisOf(c)[i].instant] :
        i \in {j \in 1..Len(SeriesOf(c)) : j <= Len(AxisOf(c)) /\ SeriesOf(c)[j] # None}}
CoveragesOf(p) == IF p.coverages = None THEN <<>> ELSE Get(p.coverages)
Readings(p) == UNION {ReadingsOf(CoveragesOf(p)[k]) : k \in 1..Len(CoveragesOf(p))}

\* The sectors a deployment configures: the one of webapp.py, the wider
\* variant, and one that starts at north.
ThresholdRanges ==
    {[min |-> 90, max |-> 180], [min |-> 45, max |-> 225], [min |-> 0, max |-> 359]}

\* C1: for a present bearing d > 0 mask_required(d) is true exactly when
\* 90 <= d <= 180, both ends included, and for every d in [0, 360) below 90
\* or above 180 it is false.
C1_SectorDecision ==
    (Returned("mask_required") /\ arg.x # None) =>
        LET d == Get(arg.x) IN
        /\ d > 0 => (Get(ret) <=> (90 <= d /\ d <= 180))
        /\ (0 <= d /\ d < 360 /\ (d < 90 \/ d > 180)) => Get(ret) = FALSE

C1_Witness ==
    /\ Returned("mask_required")
    /\ arg.x = Some(180)
    /\ ret = Some(TRUE)

\* C2: mask_required returns false for None and for every bearing <= 0,
\* and so does its body under every configured sector.
C2_NoDataIsFalse ==
    (Returned("mask_required") /\ (arg.x = None \/ Get(arg.x) <= 0)) =>
        /\ Get(ret) = FALSE
        /\ \A r \in ThresholdRanges : ~in_sector(arg.x, r.min, r.max)

C2_Witness ==
    /\ Returned("mask_required")
    /\ arg.x = Some(0)
    /\ ret = Some(FALSE)

\* C3: when the payload holds a reading, the function returns the reading
\* with the latest timestamp of all the payload's readings, the value and
\* the timestamp being those of one and the same reading.
C3_LatestReading ==
    (Returned("parse") /\ Readings(arg.x) # {}) =>
        /\ Get(ret).dd # None
        /\ Get(ret).measured_at # None
        /\ \E r \in Readings(arg.x) :
              /\ r.dd = Get(Get(ret).dd)
              /\ r.at = Get(Get(ret).measured_at)
              /\ \A q \in Readings(arg.x) : q.at <= r.at

\* the most recent entry of the last coverage is null, an earlier one of the
\* same coverage is returned
C3_Witness ==
    /\ Returned("parse")
    /\ Len(CoveragesOf(arg.x)) = MaxCov
    /\ LET c == CoveragesOf(arg.x)[MaxCov] IN
       /\ Len(SeriesOf(c)) = 2 /\ Len(AxisOf(c)) = 2
       /\ SeriesOf(c)[2] = None
       /\ Get(ret).measured_at = Some(AxisOf(c)[1].instant)

\* C4: when the payload has no coverages, or no coverage holds a reading,
\* the function returns (None, None, retrieved_at).
C4_DataAbsent ==
    (Returned("parse") /\ Readings(arg.x) = {}) =>
        Get(ret) = [dd |-> None, measured_at |-> None, retrieved_at |-> Some(now)]

\* a coverage has a value that is not null, but no timestamp for it
C4_Witness ==
    /\ Returned("parse")
    /\ Readings(arg.x) = {}
    /\ \E k \in 1..Len(CoveragesOf(arg.x)) :
          LET c == CoveragesOf(arg.x)[k] IN
          \E i \in 1..Len(SeriesOf(c)) : SeriesOf(c)[i] # None
    /\ Get(ret).dd = None

(***************************************************************************)
(* Properties of the application, under Spec.                              *)
(***************************************************************************)
NoCredential == IF secrets = None THEN TRUE ELSE Get(secrets) = ""

KeyOf(h) == <<SCHIPHOL_LOCATION_ID, h>>

\* a script run with the slider at h starts in this step
Reruns(h) == RerunHit(h) \/ RerunNoToken(h) \/ RerunMiss(h)

\* C5: a run whose arguments were fetched successfully by a call made less
\* than the TTL ago sends no request and gets that call's tuple; a run whose
\* arguments were never fetched, or whose last successful fetch returned the
\* TTL or longer ago, sends a request, whatever the other argument tuples
\* have in the cache.
C5_CacheWithinTtl ==
    [][\A h \in Lookbacks :
          Reruns(h) =>
             /\ (IF fetched[KeyOf(h)] = None THEN FALSE
                 ELSE now - Get(fetched[KeyOf(h)]).started < 30)
                => /\ calls' = 0
                   /\ pc' = "idle"
                   /\ result' = Some(Get(fetched[KeyOf(h)]).value)
             /\ (/\ ~NoCredential
                 /\ IF fetched[KeyOf(h)] = None THEN TRUE
                    ELSE now - Get(fetched[KeyOf(h)]).ended >= 30)
                => /\ calls' = 1
                   /\ pc' = "waiting"]_vars

\* a run is served from the cache at a later time than the fetch, while the
\* other argument tuple has never been fetched
C5_Witness ==
    /\ pc = "idle"
    /\ calls = 0
    /\ result # None
    /\ now > Get(Get(result).retrieved_at)
    /\ \E k \in Keys : fetched[k] = None

WellFormed(value) ==
    /\ (value.dd = None) <=> (value.measured_at = None)
    /\ value.retrieved_at # None

\* C6: the tuple a script run gets, fetched or cached, and every tuple in
\* the cache has a value exactly when it has a measured_at, and always has a
\* retrieved_at.
C6_ValueIffMeasuredAt ==
    /\ result # None => WellFormed(Get(result))
    /\ \A k \in Keys : cache[k] # None => WellFormed(Get(cache[k]).value)

\* a tuple with a value is served from the cache
C6_Witness ==
    /\ calls = 0
    /\ result # None
    /\ Get(result).dd # None
    /\ Get(result).measured_at # None

\* C7: without a credential no request is ever sent, and every script run
\* that has happened ended in the RuntimeError of get_token.
C7_NoCredentialNoRequest ==
    NoCredential =>
        /\ calls = 0
        /\ pc = "idle"
        /\ call = None
        /\ result = None
        /\ display \in {None, Some(Exception("RuntimeError"))}
        /\ \A k \in Keys : cache[k] = None

C7_Witness ==
    /\ secrets = Some("")
    /\ display = Some(Exception("RuntimeError"))
    /\ now > 0

\* C8: a script run sends at most one request, and a run that ended in an
\* HTTP error or a timeout has sent exactly one.
C8_AtMostOneRequest ==
    /\ calls <= 1
    /\ pc = "waiting" => calls = 1
    /\ display \in {Some(Exception("HTTPError")), Some(Exception("Timeout"))}
          /\ pc = "idle"
       => calls = 1

C8_Witness ==
    /\ pc = "idle"
    /\ calls = 1
    /\ display = Some(Exception("Timeout"))

\* C9: while the last fetch of an argument tuple is one that raised, the
\* cache holds no entry that answers a call with it, and a script run with
\* it sends a request.
C9_FailureNotCached ==
    /\ [](\A k \in failed : ~cache_fresh(cache[k], now))
    /\ [][\A h \in Lookbacks :
            (Reruns(h) /\ KeyOf(h) \in failed) =>
                /\ calls' = 1
                /\ pc' = "waiting"]_vars

\* the request of a retry is in flight within the TTL of an attempt that
\* failed
C9_Witness ==
    /\ pc = "waiting"
    /\ Get(call).key \in failed
    /\ now < 30

\* C10: when the fetch returned (None, None, retrieved_at) the script run
\* renders the page, with the dash for the bearing and "onbekend" for the
\* time of measurement.
C10_DataAbsentRendered ==
    (IF result = None THEN FALSE ELSE Get(result).dd = None) =>
        /\ display # None
        /\ Get(display).kind = "page"
        /\ Get(display).dd_metric = <<"--">>
        /\ Get(display).meetmoment = <<"onbekend">>
        /\ Get(display).ophaalmoment = Get(Get(result).retrieved_at)

C10_Witness ==
    /\ result # None
    /\ Get(result).dd = None
    /\ Get(result).measured_at = None
    /\ display # None
    /\ Get(display).kind = "page"
====
